---- MODULE Spec2Model ----
(***************************************************************************)
(* The Runner of src/unnamed/part_000 (imported by src/index.ts as         *)
(* ./src/Runner.ts): a queue of asynchronous tasks executed by            *)
(* concurrentLimit workers, with a failure tolerance and two event        *)
(* channels.                                                               *)
(*                                                                         *)
(* JavaScript runs every synchronous stretch of code to completion, so    *)
(* one action is one such stretch: a call of add(), on() or runAll(), or  *)
(* the continuation of runTask after `await cb(index, label)` settles     *)
(* (try or catch, then finally, then the synchronous head of the next     *)
(* runTask() the finally block calls).  Tasks are promise-returning       *)
(* functions: they settle in a later turn of the event loop, in any       *)
(* order.  Event handlers return normally, and are registered before the  *)
(* run starts, as src/index.ts does; tasks may be added at any time.      *)
(***************************************************************************)
EXTENDS Integers, Sequences, FiniteSets, TLC

\* Tasks the caller adds, at most.
MaxTasks == 3
\* Largest concurrentLimit tried.
MaxLimit == 3
\* Handlers registered per event, at most.
MaxHandlers == 2

\* tolerance: Infinity (src/index.ts:52) is above every number of failures,
\* and the failures are never more than the tasks.
Infinity == MaxTasks + 1

EVENTS == {"taskCompleted", "taskFailed"}

\* What a task's promise can resolve with: a plain value, or a value that is
\* itself an instance of Error (T is unconstrained).
Results == {"value", "anError"}

VARIABLES
    concurrentLimit,  \* public readonly concurrentLimit
    tolerance,        \* #tolerance
    queue,            \* queue: the task descriptors not yet run (task ids)
    numAdded,         \* how many tasks add() has been called with
    numActive,        \* #numActive
    numComplete,      \* #numComplete
    numTotal,         \* #numTotal
    abort,            \* #abort
    listeners,        \* #listeners: event |-> sequence of handlers
    completeTasks,    \* completeTasks: TaskResult[]
    failedTasks,      \* #failedTasks: TaskError[]
    promise,          \* the promise runAll() returned: "none" before the call
    settlement,       \* what the promise was settled with
    settleCalls,      \* every call of resolve / reject, in order
    pc,               \* each worker's position in runTask
    cur,              \* each awaiting worker's task and index
    startLog,         \* every dequeue, in order: the task, the worker, the index
    handlerCalls,     \* every #emit, with the handlers it invoked, in order
    fatal,            \* the workers whose runTask() promise rejected and whose
                      \* .catch callback has yet to run
    unhandled,        \* a runTask() promise nobody catches has rejected
    firstRun,         \* what an earlier run of this Runner left: <<>> during
                      \* its first run
    options,          \* the constructor's second argument: <<>> when omitted
    DEFAULT_RUNNER_OPTIONS    \* the module's object of default options

vars == <<concurrentLimit, tolerance, queue, numAdded, numActive, numComplete,
          numTotal, abort, listeners, completeTasks, failedTasks, promise,
          settlement, settleCalls, pc, cur, startLog, handlerCalls, fatal,
          unhandled, firstRun, options, DEFAULT_RUNNER_OPTIONS>>

\* What the constructor fixes.
config == <<concurrentLimit, tolerance, options, DEFAULT_RUNNER_OPTIONS>>
\* What runTask reads and writes, the queue apart.
runState == <<numActive, numComplete, abort, completeTasks, failedTasks,
              promise, settlement, settleCalls, pc, cur, startLog,
              handlerCalls>>
\* What only a throwing handler or a second runAll() changes.
others == <<fatal, unhandled, firstRun>>

\* A variant of the spawn loop that runs once more (i <= concurrentLimit).
WorkersOffByOne == 1..(concurrentLimit + 1)
\* The workers of the spawn loop: for (let i = 0; i < this.concurrentLimit; i++)
Workers == 1..concurrentLimit

NoTask == [task |-> 0, index |-> 0]

\* A handler is identified by the event it was registered for and its position.
Handler(event, n) == [event |-> event, n |-> n]

\* on(event, listener): this.#listeners[event].push(listener)
on(ls, event) ==
    [ls EXCEPT ![event] = Append(@, Handler(event, Len(@) + 1))]

\* The constructor's options: onTaskComplete, then onTaskFailed.
Construct(onTaskComplete, onTaskFailed) ==
    LET l0 == [e \in EVENTS |-> <<>>]
        l1 == IF onTaskComplete THEN on(l0, "taskCompleted") ELSE l0
    IN  IF onTaskFailed THEN on(l1, "taskFailed") ELSE l1

\* DEFAULT_RUNNER_OPTIONS as the module defines it: tolerance 0, no handler.
DefaultsAtLoad ==
    [tolerance |-> 0, onTaskComplete |-> FALSE, onTaskFailed |-> FALSE]

\* What new Runner(limit, options) can be given as options: nothing, or a
\* RunnerOptions object, where tolerance is required and each handler is
\* optional (a handler that is present is a function, TRUE here).
Options ==
    {<<>>} \cup
    {<<[k \in {"tolerance"} \cup hs |-> IF k = "tolerance" THEN t ELSE TRUE]>> :
        t \in 0..Infinity, hs \in SUBSET {"onTaskComplete", "onTaskFailed"}}

\* Object.assign(target, options): the own properties of options are written
\* into target, and target is what is returned.
assign(target, opts) ==
    LET merged == IF opts = <<>> THEN target
                  ELSE [k \in DOMAIN target |->
                          IF k \in DOMAIN opts[1] THEN opts[1][k]
                          ELSE target[k]]
    IN  [result |-> merged, target |-> merged]

\* The state after the module's first new Runner(limit, opts).
Constructed(opts) ==
    /\ concurrentLimit \in 1..MaxLimit
    /\ options = opts
    /\ DEFAULT_RUNNER_OPTIONS = assign(DefaultsAtLoad, options).target
    /\ tolerance = assign(DefaultsAtLoad, options).result.tolerance
    /\ queue = <<>>
    /\ numAdded = 0
    /\ numActive = 0
    /\ numComplete = 0
    /\ numTotal = 0
    /\ abort = FALSE
    /\ listeners = Construct(assign(DefaultsAtLoad, options).result.onTaskComplete,
                             assign(DefaultsAtLoad, options).result.onTaskFailed)
    /\ completeTasks = <<>>
    /\ failedTasks = <<>>
    /\ promise = "none"
    /\ settlement = [error |-> "none", results |-> 0]
    /\ settleCalls = <<>>
    /\ pc = [w \in Workers |-> "unspawned"]
    /\ cur = [w \in Workers |-> NoTask]
    /\ startLog = <<>>
    /\ handlerCalls = <<>>
    /\ fatal = {}
    /\ unhandled = FALSE
    /\ firstRun = <<>>

\* The first Runner, constructed without handlers: in Spec the handlers are
\* registered with on(), which is what the constructor calls for them.
Init ==
    \E opts \in {o \in Options :
                    IF o = <<>> THEN TRUE ELSE DOMAIN o[1] = {"tolerance"}} :
        Constructed(opts)

\* The first Runner, constructed with any options.
InitWithHandlers == \E opts \in Options : Constructed(opts)

\* new Runner(limit, opts), a further construction in the same module: the
\* variables of the instance are from now on those of the new Runner, and
\* DEFAULT_RUNNER_OPTIONS is the one object every construction writes to.
\* The Runners are constructed before the last of them is given tasks.
New(limit, opts) ==
    LET assigned == assign(DEFAULT_RUNNER_OPTIONS, opts)
    IN  /\ numAdded = 0
        /\ promise = "none"
        /\ concurrentLimit' = limit
        /\ options' = opts
        /\ DEFAULT_RUNNER_OPTIONS' = assigned.target
        /\ tolerance' = assigned.result.tolerance
        /\ queue' = <<>>
        /\ numAdded' = 0
        /\ numActive' = 0
        /\ numComplete' = 0
        /\ numTotal' = 0
        /\ abort' = FALSE
        /\ listeners' = Construct(assigned.result.onTaskComplete,
                                  assigned.result.onTaskFailed)
        /\ completeTasks' = <<>>
        /\ failedTasks' = <<>>
        /\ promise' = "none"
        /\ settlement' = [error |-> "none", results |-> 0]
        /\ settleCalls' = <<>>
        /\ pc' = [w \in 1..limit |-> "unspawned"]
        /\ cur' = [w \in 1..limit |-> NoTask]
        /\ startLog' = <<>>
        /\ handlerCalls' = <<>>
        /\ fatal' = {}
        /\ unhandled' = FALSE
        /\ firstRun' = <<>>

\* add(cb, label): this.queue.push({ cb, label })
Add ==
    /\ numAdded < MaxTasks
    /\ numAdded' = numAdded + 1
    /\ queue' = Append(queue, numAdded + 1)
    /\ UNCHANGED <<config, numTotal, listeners, runState, others>>

\* on(event, listener), called before runAll()
On(event) ==
    /\ promise = "none"
    /\ Len(listeners[event]) < MaxHandlers
    /\ listeners' = on(listeners, event)
    /\ UNCHANGED <<config, queue, numAdded, numTotal, runState, others>>

\* The fields of the Runner and of the promise that one stretch of runTask
\* reads and writes, gathered so that the blocks of runTask compose.
this ==
    [queue |-> queue, numActive |-> numActive, numComplete |-> numComplete,
     abort |-> abort, completeTasks |-> completeTasks,
     failedTasks |-> failedTasks, promise |-> promise,
     settlement |-> settlement, settleCalls |-> settleCalls, pc |-> pc,
     cur |-> cur, startLog |-> startLog, handlerCalls |-> handlerCalls]

\* The assignments of one stretch take effect (n is the stretch's final
\* state, computed once).
Commit(s) ==
    \E n \in {s} :
        /\ queue' = n.queue
        /\ numActive' = n.numActive
        /\ numComplete' = n.numComplete
        /\ abort' = n.abort
        /\ completeTasks' = n.completeTasks
        /\ failedTasks' = n.failedTasks
        /\ promise' = n.promise
        /\ settlement' = n.settlement
        /\ settleCalls' = n.settleCalls
        /\ pc' = n.pc
        /\ cur' = n.cur
        /\ startLog' = n.startLog
        /\ handlerCalls' = n.handlerCalls

\* A variant of complete that forgets the tasks in flight.
completeIgnoringActive(s) == s.queue = <<>>
\* get complete(): this.queue.length === 0 && this.#numActive === 0
complete(s) == s.queue = <<>> /\ s.numActive = 0

\* A variant of the tolerance check that compares with >=.
toleranceBreachedAtLimit(s) == Len(s.failedTasks) >= tolerance
\* if (this.#failedTasks.length > this.#tolerance)
toleranceBreached(s) == Len(s.failedTasks) > tolerance

\* resolve(...) and reject(...) of the promise's executor: only the first
\* call settles the promise; each call is recorded.
settle(s, call, error) ==
    LET first == s.promise = "pending"
    IN  [s EXCEPT
            !.settleCalls = Append(@, [call |-> call, error |-> error,
                                       failed |-> Len(s.failedTasks),
                                       results |-> Len(s.completeTasks)]),
            !.promise = IF ~first THEN @
                        ELSE IF call = "resolve" THEN "resolved" ELSE "rejected",
            !.settlement = IF ~first THEN @
                           ELSE [error |-> error,
                                 results |-> Len(s.completeTasks)]]

\* A variant of the index that counts the finished tasks only.
indexFromComplete(s) == s.numComplete + 1
\* const index = this.#numActive + this.#numComplete, read after numActive++
index(s) == s.numActive + s.numComplete

\* A worker's task, and the record of the dequeue.
started(s, w, task) ==
    [s EXCEPT
        !.pc[w] = "awaiting",
        !.cur[w] = [task |-> task, index |-> index(s)],
        !.startLog = Append(@, [task |-> task, worker |-> w,
                                index |-> index(s)])]

\* A variant of runTask that reads the head of the queue without removing it.
runTaskKeepingHead(s, w) ==
    IF s.abort \/ s.queue = <<>>
      THEN [s EXCEPT !.pc[w] = "returned", !.cur[w] = NoTask]
      ELSE started([s EXCEPT !.numActive = @ + 1], w, Head(s.queue))
\* A variant of runTask that takes the newest task (pop for shift).
runTaskFromTail(s, w) ==
    IF s.abort \/ s.queue = <<>>
      THEN [s EXCEPT !.pc[w] = "returned", !.cur[w] = NoTask]
      ELSE started([s EXCEPT !.queue = SubSeq(@, 1, Len(@) - 1),
                             !.numActive = @ + 1],
                   w, s.queue[Len(s.queue)])
\* A variant of runTask in which a worker that finds the queue empty
\* resolves the run.
runTaskResolvingWhenEmpty(s, w) ==
    IF s.abort
      THEN [s EXCEPT !.pc[w] = "returned", !.cur[w] = NoTask]
    ELSE IF s.queue = <<>>
      THEN settle([s EXCEPT !.pc[w] = "returned", !.cur[w] = NoTask],
                  "resolve", "null")
    ELSE started([s EXCEPT !.queue = Tail(@), !.numActive = @ + 1],
                 w, Head(s.queue))
\* The synchronous head of runTask, up to `await cb(index, label)`.
runTask(s, w) ==
    IF s.abort
      THEN [s EXCEPT !.pc[w] = "returned", !.cur[w] = NoTask]
    ELSE IF s.queue = <<>>
      THEN [s EXCEPT !.pc[w] = "returned", !.cur[w] = NoTask]
    ELSE started([s EXCEPT !.queue = Tail(@), !.numActive = @ + 1],
                 w, Head(s.queue))

\* The two variants of TaskEvent; duration is not modelled, and the task's
\* identity stands for its label.
TaskResult(c, result) ==
    [result |-> result, error |-> "null",
     meta |-> [index |-> c.index, label |-> c.task]]
TaskError(c) ==
    [result |-> "null", error |-> "Error",
     meta |-> [index |-> c.index, label |-> c.task]]

\* #isFailedEvent: e.result instanceof Error
isFailedEvent(e) == e.result = "anError"
\* #isCompletedEvent: !this.#isFailedEvent(e)
isCompletedEvent(e) == ~isFailedEvent(e)

Min(a, b) == IF a < b THEN a ELSE b

\* #emit(event, e): the handlers it invokes with e, in order.  The loop runs
\* i over the listeners of `event`, and calls the i-th listener of the list
\* the type guards pick, when that list has an i-th listener.
emit(ls, event, e) ==
    LET picked == IF isCompletedEvent(e) THEN "taskCompleted"
                  ELSE IF isFailedEvent(e) THEN "taskFailed"
                  ELSE "none"
    IN  IF picked = "none" THEN <<>>
        ELSE SubSeq(ls[picked], 1, Min(Len(ls[event]), Len(ls[picked])))

\* One #emit as the handlers see it: the event, the outcome, the handlers
\* invoked, and whether the run was already aborted.
Emitted(s, event, e) ==
    [event |-> event, e |-> e, called |-> emit(listeners, event, e),
     aborted |-> s.abort, threw |-> FALSE]

\* A variant of the try block that dispatches the event without
\* this.completeTasks.push(taskResult).
tryBlockWithoutPush(s, w, result) ==
    [s EXCEPT !.handlerCalls =
        Append(@, Emitted(s, "taskCompleted", TaskResult(s.cur[w], result)))]
\* try { const result = await cb(index, label); ... }
tryBlock(s, w, result) ==
    LET taskResult == TaskResult(s.cur[w], result)
    IN  [s EXCEPT
            !.completeTasks = Append(@, taskResult),
            !.handlerCalls = Append(@, Emitted(s, "taskCompleted", taskResult))]

\* A variant of the catch block that rejects without this.#abort = true.
catchBlockWithoutAbort(s, w) ==
    LET taskError == TaskError(s.cur[w])
        s1 == [s EXCEPT
                 !.failedTasks = Append(@, taskError),
                 !.handlerCalls = Append(@, Emitted(s, "taskFailed", taskError))]
    IN  IF toleranceBreached(s1)
          THEN settle(s1, "reject", "toleranceExceeded")
          ELSE s1
\* catch (e) { ... }
catchBlock(s, w) ==
    LET taskError == TaskError(s.cur[w])
        s1 == [s EXCEPT
                 !.failedTasks = Append(@, taskError),
                 !.handlerCalls = Append(@, Emitted(s, "taskFailed", taskError))]
    IN  IF toleranceBreached(s1)
          THEN settle([s1 EXCEPT !.abort = TRUE], "reject", "toleranceExceeded")
          ELSE s1

\* A variant of the finally block without this.#numComplete++.
finallyBlockWithoutCount(s, w) ==
    LET s1 == [s EXCEPT !.numActive = @ - 1]
    IN  IF complete(s1) \/ s1.abort
          THEN settle([s1 EXCEPT !.pc[w] = "returned", !.cur[w] = NoTask],
                      "resolve", "null")
          ELSE runTask(s1, w)
\* A variant of the finally block in which the worker does not call
\* runTask() again.
finallyBlockWithoutNext(s, w) ==
    LET s1 == [s EXCEPT !.numComplete = @ + 1, !.numActive = @ - 1,
                        !.pc[w] = "returned", !.cur[w] = NoTask]
    IN  IF complete(s1) \/ s1.abort
          THEN settle(s1, "resolve", "null")
          ELSE s1
\* finally { ... }
finallyBlock(s, w) ==
    LET s1 == [s EXCEPT !.numComplete = @ + 1, !.numActive = @ - 1]
    IN  IF complete(s1) \/ s1.abort
          THEN settle([s1 EXCEPT !.pc[w] = "returned", !.cur[w] = NoTask],
                      "resolve", "null")
          ELSE runTask(s1, w)

\* reject({ result: this.completeTasks, error }): the list handed to the
\* caller is the array completeTasks itself, not a copy of it.
rejectionResult == completeTasks

\* for (let i = 0; i < this.concurrentLimit; i++) runTask()
RECURSIVE spawn(_, _)
spawn(s, w) == IF w \notin Workers THEN s ELSE spawn(runTask(s, w), w + 1)

\* runAll(), up to the return of the promise.
RunAll ==
    /\ promise = "none"
    /\ numTotal' = Len(queue)
    /\ Commit(spawn([this EXCEPT !.promise = "pending"], 1))
    /\ UNCHANGED <<config, numAdded, listeners, others>>

\* The task of worker w resolves with `result`: try, then finally.
TaskResolves(w, result) ==
    /\ pc[w] = "awaiting"
    /\ Commit(finallyBlock(tryBlock(this, w, result), w))
    /\ UNCHANGED <<config, numAdded, numTotal, listeners, others>>

\* The task of worker w rejects: catch, then finally.
TaskRejects(w) ==
    /\ pc[w] = "awaiting"
    /\ Commit(finallyBlock(catchBlock(this, w), w))
    /\ UNCHANGED <<config, numAdded, numTotal, listeners, others>>

Next ==
    \/ Add
    \/ \E event \in EVENTS : On(event)
    \/ RunAll
    \/ \E w \in Workers : TaskRejects(w)
    \/ \E w \in Workers, result \in Results : TaskResolves(w, result)

Spec == Init /\ [][Next]_vars

\* The promise `await cb(index, label)` waits for settles, one way or the other.
TaskSettles(w) ==
    \/ TaskRejects(w)
    \/ \E result \in Results : TaskResolves(w, result)

\* Every started task eventually settles, and the event loop then runs the
\* continuation of its runTask: while tasks are in flight, one of them
\* settles.
Fairness == WF_vars(\E w \in Workers : TaskSettles(w))

(***************************************************************************)
(* Handlers that throw.  #emit calls the handlers inside the try block and *)
(* inside the catch block of runTask, so what a handler throws in the try  *)
(* block is caught as if the task had thrown, and what a handler throws in *)
(* the catch block leaves runTask after the finally block: the promise of  *)
(* that runTask() call rejects.  The calls made by runAll's loop have a    *)
(* .catch; the calls made by the finally block have none.                  *)
(***************************************************************************)
\* #emit(event, e) when the k-th handler it invokes throws: the loop stops.
EmittedUntil(s, event, e, k) ==
    [event |-> event, e |-> e,
     called |-> SubSeq(emit(listeners, event, e), 1, k),
     aborted |-> s.abort, threw |-> TRUE]

\* try { ...; this.completeTasks.push(taskResult); this.#emit(...) } when the
\* k-th handler throws.
tryBlockThrows(s, w, result, k) ==
    LET taskResult == TaskResult(s.cur[w], result)
    IN  [s EXCEPT
            !.completeTasks = Append(@, taskResult),
            !.handlerCalls =
                Append(@, EmittedUntil(s, "taskCompleted", taskResult, k))]

\* catch (e) { ... } for what a handler threw in the try block.
catchBlockOfHandler(s, w) ==
    LET taskError == [TaskError(s.cur[w]) EXCEPT !.error = "handlerError"]
        s1 == [s EXCEPT
                 !.failedTasks = Append(@, taskError),
                 !.handlerCalls = Append(@, Emitted(s, "taskFailed", taskError))]
    IN  IF toleranceBreached(s1)
          THEN settle([s1 EXCEPT !.abort = TRUE], "reject", "toleranceExceeded")
          ELSE s1

\* catch (e) { ...; this.#emit('taskFailed', taskError) } when the k-th
\* handler throws: the tolerance check is not reached.
catchBlockThrows(s, w, error, k) ==
    LET taskError == [TaskError(s.cur[w]) EXCEPT !.error = error]
    IN  [s EXCEPT
            !.failedTasks = Append(@, taskError),
            !.handlerCalls =
                Append(@, EmittedUntil(s, "taskFailed", taskError, k))]

\* The handlers #emit(event, e) would invoke, by position.
Invoked(event, e) == 1..Len(emit(listeners, event, e))

\* Whether worker w is in the runTask() call made by runAll's loop, the one
\* with a .catch.
InFirstCall(w) ==
    Cardinality({i \in DOMAIN startLog : startLog[i].worker = w}) = 1

\* The promise of worker w's runTask() call rejects.
Escapes(w) ==
    IF InFirstCall(w)
      THEN fatal' = fatal \cup {w} /\ UNCHANGED unhandled
      ELSE unhandled' = TRUE /\ UNCHANGED fatal

\* The task of worker w resolves and the k-th taskCompleted handler throws:
\* try, catch, finally.
TaskResolvesHandlerThrows(w, result, k) ==
    /\ pc[w] = "awaiting"
    /\ k \in Invoked("taskCompleted", TaskResult(cur[w], result))
    /\ Commit(finallyBlock(
                catchBlockOfHandler(tryBlockThrows(this, w, result, k), w), w))
    /\ UNCHANGED <<config, numAdded, numTotal, listeners, others>>

\* The same, and a handler throws again in the catch block: try, catch,
\* finally, and the exception leaves runTask.
TaskResolvesHandlersThrow(w, result, k, j) ==
    /\ pc[w] = "awaiting"
    /\ k \in Invoked("taskCompleted", TaskResult(cur[w], result))
    /\ j \in Invoked("taskFailed", TaskError(cur[w]))
    /\ Commit(finallyBlock(
                catchBlockThrows(tryBlockThrows(this, w, result, k), w,
                                 "handlerError", j), w))
    /\ Escapes(w)
    /\ UNCHANGED <<config, numAdded, numTotal, listeners, firstRun>>

\* The task of worker w rejects and the j-th handler throws in the catch
\* block: catch, finally, and the exception leaves runTask.
TaskRejectsHandlerThrows(w, j) ==
    /\ pc[w] = "awaiting"
    /\ j \in Invoked("taskFailed", TaskError(cur[w]))
    /\ Commit(finallyBlock(catchBlockThrows(this, w, "Error", j), w))
    /\ Escapes(w)
    /\ UNCHANGED <<config, numAdded, numTotal, listeners, firstRun>>

\* runTask().catch((e) => { ...; reject({ result: this.completeTasks, error: e }) })
FatalCatch(w) ==
    /\ w \in fatal
    /\ fatal' = fatal \ {w}
    /\ Commit(settle(this, "reject", "fatal"))
    /\ UNCHANGED <<config, numAdded, numTotal, listeners, unhandled, firstRun>>

\* The handlers are the ones given to the constructor: no on() here.
NextThrow ==
    \/ Add
    \/ RunAll
    \/ \E w \in Workers : TaskRejects(w)
    \/ \E w \in Workers, result \in Results : TaskResolves(w, result)
    \/ \E w \in Workers, result \in Results, k \in 1..MaxHandlers :
          TaskResolvesHandlerThrows(w, result, k)
    \/ \E w \in Workers, result \in Results, k \in 1..MaxHandlers,
          j \in 1..MaxHandlers :
          TaskResolvesHandlersThrow(w, result, k, j)
    \/ \E w \in Workers, j \in 1..MaxHandlers : TaskRejectsHandlerThrows(w, j)
    \/ \E w \in Workers : FatalCatch(w)

SpecThrow == InitWithHandlers /\ [][NextThrow]_vars

\* Runners constructed one after the other, the last of them run.  The
\* handlers are the ones the constructor registers: no on() here.
NextConstruct ==
    \/ Add
    \/ RunAll
    \/ \E w \in Workers : TaskRejects(w)
    \/ \E w \in Workers, result \in Results : TaskResolves(w, result)
    \/ \E limit \in 1..MaxLimit, opts \in Options : New(limit, opts)

SpecConstruct == InitWithHandlers /\ [][NextConstruct]_vars

(***************************************************************************)
(* A second runAll() on the same Runner, called once the first run's       *)
(* promise has settled and its tasks have finished.                        *)
(***************************************************************************)
\* A variant of runAll that starts from fresh fields.
newPromiseOnFreshFields(s) ==
    [s EXCEPT !.promise = "pending",
              !.settlement = [error |-> "none", results |-> 0],
              !.settleCalls = <<>>,
              !.numComplete = 0, !.abort = FALSE,
              !.completeTasks = <<>>, !.failedTasks = <<>>]
\* return new Promise(...): a new promise, and no field of the Runner is
\* written before the first runTask().
newPromise(s) ==
    [s EXCEPT !.promise = "pending",
              !.settlement = [error |-> "none", results |-> 0],
              !.settleCalls = <<>>]

\* What the first run left in the fields.
Left ==
    [completeTasks |-> completeTasks, failedTasks |-> failedTasks,
     numComplete |-> numComplete, abort |-> abort]

\* runAll(), called a second time.
RunAllAgain ==
    /\ promise \in {"resolved", "rejected"}
    /\ numActive = 0
    /\ firstRun = <<>>
    /\ firstRun' = <<Left>>
    /\ numTotal' = Len(queue)
    /\ Commit(spawn(newPromise(this), 1))
    /\ UNCHANGED <<config, numAdded, listeners, fatal, unhandled>>

\* One Runner, run twice; the handlers do not matter here: no on().
NextReuse ==
    \/ Add
    \/ RunAll
    \/ RunAllAgain
    \/ \E w \in Workers : TaskRejects(w)
    \/ \E w \in Workers, result \in Results : TaskResolves(w, result)

SpecReuse == Init /\ [][NextReuse]_vars

\* The run under fair scheduling.  The handlers return normally and have no
\* part in whether the run settles: the Runner is constructed without any.
InitFair == Init /\ listeners = Construct(FALSE, FALSE)

NextFair ==
    \/ Add
    \/ RunAll
    \/ \E w \in Workers : TaskRejects(w)
    \/ \E w \in Workers, result \in Results : TaskResolves(w, result)

SpecFair == InitFair /\ [][NextFair]_vars /\ Fairness

(***************************************************************************)
(* The properties.                                                         *)
(***************************************************************************)
Range(f) == {f[i] : i \in DOMAIN f}

\* The run has started, with at least one task in the queue.
Started == promise # "none" /\ numTotal > 0
\* Nothing is queued and nothing is in flight.
Quiescent == queue = <<>> /\ numActive = 0
Settled == promise \in {"resolved", "rejected"}
\* More tasks have failed than the tolerance allows.
Breached == Len(failedTasks) > tolerance
\* The outcomes recorded for task t, in the two accumulators together.
Outcomes(t) ==
    Cardinality({i \in DOMAIN completeTasks : completeTasks[i].meta.label = t})
  + Cardinality({i \in DOMAIN failedTasks : failedTasks[i].meta.label = t})
InFlight(t) == \E w \in Workers : pc[w] = "awaiting" /\ cur[w].task = t
Queued(t) == \E i \in DOMAIN queue : queue[i] = t
RejectCalls == {i \in DOMAIN settleCalls : settleCalls[i].call = "reject"}

\* C1: in every state of a run, the number of tasks executing (numActive) is
\* at most concurrentLimit.
Thm_C1 == numActive <= concurrentLimit
\* The limit is reached while tasks are still waiting in the queue.
Wit_C1 == numActive = concurrentLimit /\ queue # <<>> /\ numComplete > 0

\* C2: with tolerance k, a run with at most k failures is never rejected and
\* resolves with error null once all its tasks are done; a run with more
\* than k failures is rejected with the tolerance-exceeded error, and the
\* rejecting call is made at the (k+1)-th recorded failure.
Thm_C2 ==
    Started =>
      /\ Len(failedTasks) <= tolerance =>
            /\ promise # "rejected"
            /\ Quiescent => promise = "resolved" /\ settlement.error = "null"
      /\ Len(failedTasks) > tolerance =>
            /\ promise = "rejected"
            /\ settlement.error = "toleranceExceeded"
            /\ settleCalls[1].call = "reject"
            /\ settleCalls[1].failed = tolerance + 1
\* A run rejected at its (k+1)-th failure, k >= 1, after some task succeeded.
Wit_C2 ==
    /\ promise = "rejected"
    /\ tolerance >= 1
    /\ Len(failedTasks) = tolerance + 1
    /\ completeTasks # <<>>

\* C3: runAll() on an empty queue resolves at once with results = [] and
\* error null.
CE_C3 ==
    (promise # "none" /\ numTotal = 0) =>
        /\ promise = "resolved"
        /\ settlement = [error |-> "null", results |-> 0]

\* C4: each #emit invokes every handler registered for its event exactly
\* once, in registration order: the taskFailed handlers for a failed task, the
\* taskCompleted handlers for a task that succeeded.
CE_C4 ==
    \A i \in DOMAIN handlerCalls :
        handlerCalls[i].called = listeners[handlerCalls[i].event]

\* C5: a handler registered for taskCompleted is invoked with Success outcomes
\* only (error is null), a handler registered for taskFailed with Failure
\* outcomes only (result is null).
CE_C5 ==
    \A i \in DOMAIN handlerCalls :
        \A h \in Range(handlerCalls[i].called) :
            /\ h.event = "taskCompleted" => handlerCalls[i].e.error = "null"
            /\ h.event = "taskFailed" => handlerCalls[i].e.result = "null"

\* C6, as stated: once the run has settled and no task is in flight, every
\* task that was in the queue at runAll() has exactly one outcome.
CE_C6 ==
    (Started /\ Settled /\ numActive = 0) =>
        \A t \in 1..numTotal : Outcomes(t) = 1
\* C6, amended: no task ever has two outcomes; a task has exactly one outcome
\* as soon as it was dequeued and has finished, and none while it is queued
\* or in flight; and in a run that never aborts, every task that was in the
\* queue at runAll() has exactly one outcome once the run has settled and no
\* task is in flight.
Thm_C6 ==
    /\ \A t \in 1..numAdded :
          /\ Outcomes(t) <= 1
          /\ Outcomes(t) = 1 <=> ~Queued(t) /\ ~InFlight(t)
    /\ (Started /\ Settled /\ numActive = 0 /\ ~abort) =>
          \A t \in 1..numTotal : Outcomes(t) = 1
\* An aborted run has settled with a task of the run left in the queue.
Wit_C6 ==
    /\ Started /\ Settled /\ numActive = 0 /\ abort
    /\ \E t \in 1..numTotal : Queued(t)
    /\ \E t \in 1..numTotal : Outcomes(t) = 1

\* C7: a tolerance breach sets the abort flag, and once it is set the flag
\* stays set, the queue never gets shorter and numActive never increases;
\* a task in flight that finishes then still records one outcome and one
\* dispatch.
Thm_C7 ==
    /\ [](Breached => abort)
    /\ [][abort =>
            /\ abort'
            /\ Len(queue') >= Len(queue)
            /\ numActive' <= numActive
            /\ numActive' < numActive =>
                  /\ numActive' = numActive - 1
                  /\ Len(completeTasks') + Len(failedTasks')
                        = Len(completeTasks) + Len(failedTasks) + 1
                  /\ Len(handlerCalls') = Len(handlerCalls) + 1]_vars
\* A task finished and dispatched after the abort, with tasks left queued.
Wit_C7 ==
    /\ abort /\ queue # <<>>
    /\ \E i \in DOMAIN handlerCalls : handlerCalls[i].aborted

\* C8: the tolerance-breach branch runs at most once per run: there is no
\* second reject call.
CE_C8 == Cardinality(RejectCalls) <= 1

\* C9: a run of a non-empty queue settles once, by the path that matches: if
\* the failures exceeded the tolerance, the promise is rejected and the first
\* settling call is that reject; otherwise reject is never called and the
\* promise, once all tasks are done, is resolved with completeTasks and error
\* null.  A settled promise never changes.
Thm_C9 ==
    /\ [](Started =>
            /\ Breached =>
                  /\ promise = "rejected"
                  /\ settleCalls[1].call = "reject"
            /\ ~Breached =>
                  /\ RejectCalls = {}
                  /\ Quiescent => promise = "resolved"
            /\ promise = "resolved" =>
                  settlement = [error |-> "null",
                                results |-> Len(completeTasks)]
            /\ promise = "pending" <=> settleCalls = <<>>)
    /\ [][Settled => promise' = promise /\ settlement' = settlement]_vars
\* A breaching run in which resolve was called after the reject.
Wit_C9 ==
    /\ promise = "rejected"
    /\ Len(settleCalls) >= 2
    /\ settleCalls[2].call = "resolve"
    /\ numActive > 0

\* C10, as stated: with tolerance >= the number of enqueued tasks, the run
\* resolves with as many results as there were tasks.
CE_C10 ==
    (Started /\ Quiescent /\ tolerance >= numAdded) =>
        /\ promise = "resolved"
        /\ Len(completeTasks) = numAdded
\* C10, amended: with tolerance >= the number of enqueued tasks, the run is
\* never rejected and abort is never set, and it resolves with as many
\* results as there were tasks that did not fail.
Thm_C10 ==
    (Started /\ tolerance >= numAdded) =>
        /\ ~abort
        /\ promise # "rejected"
        /\ Quiescent =>
              /\ promise = "resolved"
              /\ settlement.results = Len(completeTasks)
              /\ Len(completeTasks) = numAdded - Len(failedTasks)
\* Such a run resolved after some tasks failed and some succeeded.
Wit_C10 ==
    /\ Started /\ Quiescent /\ tolerance >= numAdded
    /\ promise = "resolved"
    /\ failedTasks # <<>>
    /\ completeTasks # <<>>

\* The run had no add() after runAll().
NoLateAdd == numAdded = numTotal
\* The workers that have dequeued a task.
Dequeuers == {startLog[k].worker : k \in DOMAIN startLog}
AllOutcomes == Range(completeTasks) \cup Range(failedTasks)

\* C11: the result list carried by a tolerance rejection holds the Success
\* outcomes recorded before the abort, and nothing that happens after the
\* rejection changes it.
CE_C11 ==
    promise = "rejected" => Len(rejectionResult) = settlement.results

\* C12, as stated: the promise is settled only in a state where no task is
\* in flight, on the clean-drain path and on the abort path.
CE_C12 ==
    [][promise = "pending" /\ promise' # "pending" => numActive' = 0]_vars
\* C12, amended: the promise is resolved only in a state where nothing is
\* queued and no task is in flight; on the abort path it is rejected at once,
\* in the continuation of the failure that breaches the tolerance, whatever
\* the number of other tasks still in flight.
Thm_C12 ==
    [][/\ promise = "pending" /\ promise' = "resolved" =>
              numActive' = 0 /\ queue' = <<>> /\ ~abort'
       /\ promise = "pending" /\ promise' = "rejected" =>
              /\ abort' /\ ~abort
              /\ numActive' = numActive - 1
              /\ Len(failedTasks') = tolerance + 1]_vars
\* A run rejected while two other tasks are in flight.
Wit_C12 == promise = "rejected" /\ numActive >= 2

\* C13: in a run with no add() after runAll(), numActive + numComplete +
\* len(queue) = numTotal in every state, before and after the abort, and
\* neither counter is negative.
Thm_C13 ==
    (promise # "none" /\ NoLateAdd) =>
        /\ numActive + numComplete + Len(queue) = numTotal
        /\ numActive >= 0
        /\ numComplete >= 0
\* After the abort, with a task done, one in flight and one left queued.
Wit_C13 ==
    /\ promise # "none" /\ NoLateAdd /\ abort
    /\ numActive > 0 /\ numComplete > 0 /\ queue # <<>>

\* C14, as stated: with concurrentLimit > n, the queue length at runAll(),
\* exactly n workers dequeue, the others stop without dequeuing and without
\* settling the run, and the run resolves with one outcome per task when
\* the last task has settled, not earlier.
CE_C14 ==
    (Started /\ NoLateAdd /\ concurrentLimit > numTotal) =>
        /\ Cardinality(Dequeuers) = numTotal
        /\ \A w \in Workers : w \notin Dequeuers => pc[w] = "returned"
        /\ numActive > 0 => promise = "pending"
        /\ numActive = 0 =>
              /\ promise = "resolved"
              /\ \A t \in 1..numTotal : Outcomes(t) = 1
\* C14, amended: with concurrentLimit > n, exactly n workers dequeue and the
\* others stop without dequeuing and without settling the run; every task
\* records one outcome; if the failures do not exceed the tolerance the run
\* resolves when the last task has settled, not earlier, and if they do it
\* is rejected at the breaching failure.
Thm_C14 ==
    (Started /\ NoLateAdd /\ concurrentLimit > numTotal) =>
        /\ Cardinality(Dequeuers) = numTotal
        /\ \A w \in Workers : w \notin Dequeuers => pc[w] = "returned"
        /\ numActive = numTotal => settleCalls = <<>>
        /\ numActive > 0 /\ ~Breached => promise = "pending"
        /\ numActive = 0 /\ ~Breached => promise = "resolved"
        /\ Breached => promise = "rejected"
        /\ numActive = 0 => \A t \in 1..numTotal : Outcomes(t) = 1
\* Two tasks and more workers than tasks: resolved after both settled.
Wit_C14 ==
    /\ Started /\ NoLateAdd /\ concurrentLimit > numTotal /\ numTotal >= 2
    /\ numActive = 0 /\ promise = "resolved"

\* C16: tasks are dequeued in FIFO order and each at most once: the k-th
\* task started is the k-th task enqueued, and no task is taken twice.
Thm_C16 ==
    /\ \A k \in DOMAIN startLog : startLog[k].task = k
    /\ \A j, k \in DOMAIN startLog :
          startLog[j].task = startLog[k].task => j = k
\* Three tasks started by two workers, one of which took two of them.
Wit_C16 ==
    /\ Len(startLog) >= 3
    /\ startLog[1].worker # startLog[2].worker
    /\ startLog[3].worker = startLog[1].worker

\* C18: the index given to a task and stored in its outcome is the task's
\* 1-based position in dequeue order, so the indices are pairwise distinct
\* and increase in dequeue order.
Thm_C18 ==
    /\ \A k \in DOMAIN startLog : startLog[k].index = k
    /\ \A o \in AllOutcomes :
          /\ o.meta.index \in DOMAIN startLog
          /\ startLog[o.meta.index].task = o.meta.label
\* Tasks run concurrently and finished out of order: the second one dequeued
\* is the first to record its outcome.
Wit_C18 ==
    /\ NoLateAdd /\ Len(startLog) >= 3
    /\ completeTasks # <<>> /\ completeTasks[1].meta.index = 2
    /\ failedTasks # <<>> /\ failedTasks[1].meta.index = 3

\* C19: a run of a non-empty queue whose tasks all settle eventually settles;
\* while it is pending some task is in flight, so queued tasks are never
\* left without a worker to dequeue them, and once nothing is queued or in
\* flight the promise is settled.
Thm_C19 ==
    /\ [](Started /\ promise = "pending" => numActive > 0)
    /\ [](Started /\ NoLateAdd /\ queue # <<>> /\ ~abort => numActive > 0)
    /\ [](Started /\ Quiescent => Settled)
    /\ (Started ~> Settled)
\* One worker went back to the queue after each task and drained it.
Wit_C19 ==
    /\ Started /\ NoLateAdd /\ Quiescent
    /\ concurrentLimit = 1 /\ numComplete >= 3
    /\ promise = "resolved"

\* C15: every dequeued task ends up in exactly one of the two accumulators,
\* never in both, and is recorded as a failure only if the task itself threw,
\* whatever the handlers do.
CE_C15 ==
    /\ \A t \in 1..numAdded : Outcomes(t) <= 1
    /\ \A f \in Range(failedTasks) : f.error = "Error"

\* C17: a Runner constructed without options, after whatever Runners were
\* constructed before it, has tolerance 0 and no handler registered, and its
\* first failure aborts it.
CE_C17 ==
    options = <<>> =>
        /\ tolerance = 0
        /\ listeners = Construct(FALSE, FALSE)
        /\ (failedTasks # <<>> => abort)

IsPrefix(a, b) == Len(a) <= Len(b) /\ \A i \in DOMAIN a : a[i] = b[i]

\* C20: in a second runAll() on the same Runner, completeTasks and the failed
\* tasks extend what the first run left, numComplete goes on from the first
\* run's value, the second run's results hold the first run's Success
\* outcomes, the failures of both runs together are held against the
\* tolerance, and an abort flag the first run set is still set.
Thm_C20 ==
    firstRun # <<>> =>
        /\ IsPrefix(firstRun[1].completeTasks, completeTasks)
        /\ IsPrefix(firstRun[1].failedTasks, failedTasks)
        /\ numComplete = Len(completeTasks) + Len(failedTasks)
        /\ numComplete >= firstRun[1].numComplete
        /\ (promise = "resolved" =>
              settlement.results >= Len(firstRun[1].completeTasks))
        /\ (Len(failedTasks) > tolerance => abort)
        /\ (firstRun[1].abort => abort /\ promise = "pending" /\ numActive = 0)

\* The first run left a Success and a Failure outcome, and the second run has
\* resolved with an outcome of its own added.
Wit_C20 ==
    /\ firstRun # <<>>
    /\ firstRun[1].completeTasks # <<>>
    /\ firstRun[1].failedTasks # <<>>
    /\ promise = "resolved"
    /\ Len(completeTasks) > Len(firstRun[1].completeTasks)
====
